---- MODULE Spec2Model ----
(***************************************************************************)
(* State-machine runtime of PythonSuperMario: tools.State, tools.Control   *)
(* and the one concrete screen of the listing, states.main_menu.Menu.      *)
(*                                                                         *)
(* Python objects are modelled by reference: a screen is an object name,   *)
(* a persistent-data dict is a reference into `heap`, and two screens      *)
(* holding the same dict hold the same reference.                          *)
(***************************************************************************)
EXTENDS Integers, Sequences, FiniteSets, TLC

(* ---------------- bounds of the model ---------------- *)
MaxTicks == 1500      \* the clock stops advancing past this many ms
MaxQueue == 2         \* pending pygame events between two event_loop calls

(* ---------------- program constants ---------------- *)
TIMEOUT == 1000       \* main_menu.py:123
CURSOR_Y1 == 358      \* main_menu.py:95 / 135
CURSOR_Y2 == 403      \* main_menu.py:141
START_LIVES == 3      \* main_menu.py:33 / 155
START_LEVEL == 1      \* main_menu.py:36 / 157

(* identifiers of source.constants used by the listing *)
MAIN_MENU == "main menu"
LOAD_SCREEN == "load screen"
None == "None"
PLAYER1 == "1 player"
PLAYER2 == "2 player"
PLAYER_MARIO == "mario"
PLAYER_LUIGI == "luigi"
COIN_TOTAL == "coin total"
SCORE == "score"
LIVES == "lives"
TOP_SCORE == "top score"
CURRENT_TIME == "current time"
LEVEL_NUM == "level num"
PLAYER_NAME == "player name"

(* pygame event types and the keys the menu reads *)
QUIT == "QUIT"
KEYDOWN == "KEYDOWN"
KEYUP == "KEYUP"
OTHER_EVENT == "MOUSEMOTION"
K_DOWN == "K_DOWN"
K_UP == "K_UP"
K_RETURN == "K_RETURN"
MenuKeys == {K_DOWN, K_UP, K_RETURN}

(* the screen objects built for the registry, and their dicts *)
MenuObj == "Menu#1"
ScrObj == "State#2"
NoObj == "NoneObj"
Objs == {MenuObj, ScrObj}
DictMenu == "dict#menu"     \* the literal built in Menu.__init__
DictScr == "dict#state"     \* the {} of State.__init__ of the other screen
Refs == {DictMenu, DictScr}
Ids == {MAIN_MENU, LOAD_SCREEN}

(* time the frame throttle lets pass, in ms; two steps of 500 hit TIMEOUT exactly *)
Dts == {500, 1000}

VARIABLES
    pc,           \* position of Control: constructed / main loop steps / ended
    ctl_done,     \* Control.done
    keys,         \* Control.keys: the sampled input snapshot
    state_dict,   \* Control.state_dict: identifier -> screen object
    state_name,   \* Control.state_name
    state,        \* Control.state
    current_time, \* Control.current_time
    done,         \* State.done of every screen object
    next,         \* State.next of every screen object
    persist,      \* State.persist of every screen object (a dict reference)
    menu,         \* the Menu's own attributes
    heap,         \* contents of every dict
    ticks,        \* pg.time.get_ticks()
    pressed,      \* pg.key.get_pressed(): the keyboard as pygame knows it
    events,       \* the pygame event queue
    calls,        \* lifecycle calls made by the last Control.update, in order
    lastCall,     \* last startup/cleanup call made on every screen object
    ctlStarted,   \* screen -> has Control called startup since its last cleanup
    frame,        \* what the last main-loop iteration has performed so far
    replay        \* the recorded Menu activation of the replay harness

vars == <<pc, ctl_done, keys, state_dict, state_name, state, current_time,
          done, next, persist, menu, heap, ticks, pressed, events,
          calls, lastCall, ctlStarted, frame, replay>>

(* ---------------- dicts ---------------- *)
EmptyDict == [k \in {} |-> 0]

Put(d, k, v) == [x \in (DOMAIN d) \cup {k} |-> IF x = k THEN v ELSE d[x]]

\* Menu.__init__: the bundle literal
InitialPersist ==
    [k \in {COIN_TOTAL, SCORE, LIVES, TOP_SCORE, CURRENT_TIME, LEVEL_NUM, PLAYER_NAME} |->
        CASE k = COIN_TOTAL -> 0
          [] k = SCORE -> 0
          [] k = LIVES -> START_LIVES
          [] k = TOP_SCORE -> 0
          [] k = CURRENT_TIME -> 0
          [] k = LEVEL_NUM -> START_LEVEL
          [] k = PLAYER_NAME -> PLAYER_MARIO]

NoKeys == [k \in MenuKeys |-> FALSE]

(* ---------------- the world a frame works on ---------------- *)
\* The part of the state Control.update and the screens read and write,
\* as one record, so that calls compose the way the code nests them.
World ==
    [state_dict |-> state_dict, state_name |-> state_name, state |-> state,
     done |-> done, next |-> next,
     persist |-> persist, menu |-> menu, heap |-> heap, calls |-> <<>>,
     lastCall |-> lastCall, ctlStarted |-> ctlStarted, raised |-> FALSE]

Log(w, c) == [w EXCEPT !.calls = Append(@, c)]

(* ---------------- tools.State ---------------- *)
\* mutant: cleanup returns the bundle and leaves done set
cleanup_keeps_done(w, o) ==
    Log([w EXCEPT !.lastCall[o] = "cleanup", !.ctlStarted[o] = FALSE],
        [op |-> "cleanup", obj |-> o, ret |-> w.persist[o],
         contents |-> w.heap[w.persist[o]]])

\* mutant: cleanup drops the screen's reference once it has returned it
cleanup_revokes(w, o) ==
    Log([w EXCEPT !.done[o] = FALSE, !.persist[o] = None,
                  !.lastCall[o] = "cleanup", !.ctlStarted[o] = FALSE],
        [op |-> "cleanup", obj |-> o, ret |-> w.persist[o],
         contents |-> w.heap[w.persist[o]]])

\* mutant: cleanup clears the time stamp of the bundle it returns
cleanup_writes(w, o) ==
    Log([w EXCEPT !.done[o] = FALSE,
                  !.heap[w.persist[o]] = Put(@, CURRENT_TIME, 0),
                  !.lastCall[o] = "cleanup",
                  !.ctlStarted[o] = FALSE],
        [op |-> "cleanup", obj |-> o, ret |-> w.persist[o],
         contents |-> w.heap[w.persist[o]]])

\* State.cleanup: done = False; return self.persist
cleanup(w, o) ==
    Log([w EXCEPT !.done[o] = FALSE,
                  !.lastCall[o] = "cleanup",
                  !.ctlStarted[o] = FALSE],
        [op |-> "cleanup", obj |-> o, ret |-> w.persist[o],
         contents |-> w.heap[w.persist[o]]])

(* ---------------- states.main_menu.Menu ---------------- *)
\* mutant: the player list is rebuilt, the selected index is left as it was
setup_player_keeps_index(w) == w

\* Menu.setup_player: player_index = 0
setup_player(w) == [w EXCEPT !.menu.player_index = 0]

\* Menu.setup_cursor: rect.y = 358, state = PLAYER1
setup_cursor(w) == [w EXCEPT !.menu.cursor_y = CURSOR_Y1,
                             !.menu.cursor_state = PLAYER1]

\* mutant: startup also puts the game statistics back to their defaults
Menu_startup_resets(w, t, p) ==
    LET d  == Put(Put(Put(Put(w.heap[p], COIN_TOTAL, 0), SCORE, 0),
                      LIVES, START_LIVES), LEVEL_NUM, START_LEVEL)
        w1 == [w EXCEPT !.next[MenuObj] = LOAD_SCREEN,
                        !.persist[MenuObj] = p,
                        !.menu.game_info = p,
                        !.heap[p] = d]
        w2 == setup_cursor(setup_player(w1))
    IN  [w2 EXCEPT !.menu.timer_start = t]

\* Menu.startup(current_time, persist)
Menu_startup(w, t, p) ==
    LET w1 == [w EXCEPT !.next[MenuObj] = LOAD_SCREEN,
                        !.persist[MenuObj] = p,
                        !.menu.game_info = p]
        w2 == setup_cursor(setup_player(w1))
    IN  [w2 EXCEPT !.menu.timer_start = t]

\* Menu.reset_game_info
reset_game_info(w) ==
    LET g  == w.menu.game_info
        d1 == Put(w.heap[g], COIN_TOTAL, 0)
        d2 == Put(d1, SCORE, 0)
        d3 == Put(d2, LIVES, START_LIVES)
        d4 == Put(d3, CURRENT_TIME, 0)
        d5 == Put(d4, LEVEL_NUM, START_LEVEL)
    IN  [w EXCEPT !.heap[g] = d5, !.persist[MenuObj] = g]

\* mutant: the cursor moves, the player name is not written into the bundle
update_cursor_no_name(w, k) ==
    LET w1 == IF w.menu.cursor_state = PLAYER1
              THEN LET a == [w EXCEPT !.menu.cursor_y = CURSOR_Y1]
                   IN  IF k[K_DOWN]
                       THEN [a EXCEPT !.menu.cursor_state = PLAYER2,
                                      !.menu.player_index = 1]
                       ELSE a
              ELSE IF w.menu.cursor_state = PLAYER2
              THEN LET a == [w EXCEPT !.menu.cursor_y = CURSOR_Y2]
                   IN  IF k[K_UP]
                       THEN [a EXCEPT !.menu.cursor_state = PLAYER1,
                                      !.menu.player_index = 0]
                       ELSE a
              ELSE w
    IN  IF k[K_RETURN]
        THEN [reset_game_info(w1) EXCEPT !.done[MenuObj] = TRUE]
        ELSE w1

\* Menu.update_cursor(keys)
update_cursor(w, k) ==
    LET g  == w.menu.game_info
        w1 == IF w.menu.cursor_state = PLAYER1
              THEN LET a == [w EXCEPT !.menu.cursor_y = CURSOR_Y1]
                   IN  IF k[K_DOWN]
                       THEN [a EXCEPT !.menu.cursor_state = PLAYER2,
                                      !.menu.player_index = 1,
                                      !.heap[g] = Put(@, PLAYER_NAME, PLAYER_LUIGI)]
                       ELSE a
              ELSE IF w.menu.cursor_state = PLAYER2
              THEN LET a == [w EXCEPT !.menu.cursor_y = CURSOR_Y2]
                   IN  IF k[K_UP]
                       THEN [a EXCEPT !.menu.cursor_state = PLAYER1,
                                      !.menu.player_index = 0,
                                      !.heap[g] = Put(@, PLAYER_NAME, PLAYER_MARIO)]
                       ELSE a
              ELSE w
    IN  IF k[K_RETURN]
        THEN [reset_game_info(w1) EXCEPT !.done[MenuObj] = TRUE]
        ELSE w1

\* mutant: the elapsed time is taken with the wrong sign
TimedOut_reversed(elapsed) == 0 - elapsed >= TIMEOUT

\* mutant: the timeout compares with > instead of >=
TimedOut_strict(elapsed) == elapsed > TIMEOUT

\* the exit test of Menu.update: elapsed_time >= 1000
TimedOut(elapsed) == elapsed >= TIMEOUT

\* Menu.update(surface, keys, current_time)
Menu_update(w, k, t) ==
    LET g  == w.menu.game_info
        w1 == [w EXCEPT !.menu.current_time = t,
                        !.heap[g] = Put(@, CURRENT_TIME, t)]
        w2 == update_cursor(w1, k)
    IN  IF TimedOut(t - w2.menu.timer_start)
        THEN [w2 EXCEPT !.done[MenuObj] = TRUE, !.next[MenuObj] = LOAD_SCREEN]
        ELSE w2

(* ---------------- the other registered screen ---------------- *)
\* A concrete tools.State subclass other than Menu (load screen, level, ...).
\* Its startup keeps the bundle it is handed; its update may do nothing,
\* write game progress into its bundle, or finish: set done and either
\* leave next as it is or name a target.
ScreenChoices ==
    {[act |-> "idle", target |-> "keep"], [act |-> "play", target |-> "keep"]}
    \cup {[act |-> "finish", target |-> x] : x \in Ids \cup {"keep"}}

Screen_startup(w, t, p) == [w EXCEPT !.persist[ScrObj] = p]

Screen_update(w, ch) ==
    LET r == w.persist[ScrObj] IN
    CASE ch.act = "idle" -> w
      [] ch.act = "play" ->
            [w EXCEPT !.heap[r] =
                Put(Put(Put(Put(Put(@, COIN_TOTAL, 1), SCORE, 100), LIVES, 2),
                        TOP_SCORE, 100), LEVEL_NUM, 2)]
      [] ch.act = "finish" ->
            [w EXCEPT !.done[ScrObj] = TRUE,
                      !.next[ScrObj] = IF ch.target = "keep" THEN @ ELSE ch.target]

(* ---------------- dispatch on the screen's class ---------------- *)
\* self.state.startup(self.current_time, persist), as flip_state calls it
startup(w, o, t, p) ==
    LET w1 == IF o = MenuObj THEN Menu_startup(w, t, p) ELSE Screen_startup(w, t, p)
    IN  Log([w1 EXCEPT !.lastCall[o] = "startup", !.ctlStarted[o] = TRUE],
            [op |-> "startup", obj |-> o, arg |-> p, time |-> t,
             contents |-> w.heap[p]])

\* self.state.update(self.screen, self.keys, self.current_time)
update(w, o, k, t, ch) ==
    LET w1 == IF o = MenuObj THEN Menu_update(w, k, t) ELSE Screen_update(w, ch)
    IN  Log(w1, [op |-> "update", obj |-> o, time |-> t, keys |-> k,
                 doneAtCall |-> w.done[o],
                 lastCall |-> w.lastCall[o],
                 ctlStarted |-> w.ctlStarted[o]])

(* ---------------- tools.Control ---------------- *)
\* mutant: Control.update tests next instead of done
ShouldFlip_next_set(w) == w.next[w.state] # None

\* the test of Control.update: if self.state.done
ShouldFlip(w) == w.done[w.state]

\* mutant: startup is handed the incoming screen's own persist
flip_state_own_persist(w, t) ==
    LET out == w.state
        w1 == [w EXCEPT !.state_name = w.next[out]]
        w2 == cleanup(w1, out)
    IN  IF w2.state_name \notin DOMAIN w.state_dict
        THEN [w2 EXCEPT !.raised = TRUE]
        ELSE LET w3 == [w2 EXCEPT !.state = w.state_dict[w2.state_name]]
             IN  startup(w3, w3.state, t, w3.persist[w3.state])

\* mutant: the screen is switched, state_name is not assigned
flip_state_stale_name(w, t) ==
    LET out == w.state
        nm  == w.next[out]
        p   == w.persist[out]
        w2  == cleanup(w, out)
    IN  IF nm \notin DOMAIN w.state_dict
        THEN [w2 EXCEPT !.state_name = nm, !.raised = TRUE]
        ELSE LET w3 == [w2 EXCEPT !.state = w.state_dict[nm]]
             IN  startup(w3, w3.state, t, p)

\* mutant: an unregistered next is ignored and the old screen stays active
flip_state_fallback(w, t) ==
    LET out == w.state
        nm  == w.next[out]
        p   == w.persist[out]
    IN  IF nm \notin DOMAIN w.state_dict
        THEN w
        ELSE LET w2 == cleanup([w EXCEPT !.state_name = nm], out)
                 w3 == [w2 EXCEPT !.state = w.state_dict[nm]]
             IN  startup(w3, w3.state, t, p)

\* mutant: the incoming screen is taken out of the registry (dict.pop)
flip_state_pops(w, t) ==
    LET out == w.state
        w1 == [w EXCEPT !.state_name = w.next[out]]
        p  == w1.persist[out]
        w2 == cleanup(w1, out)
    IN  IF w2.state_name \notin DOMAIN w.state_dict
        THEN [w2 EXCEPT !.raised = TRUE]
        ELSE LET w3 == [w2 EXCEPT !.state = w.state_dict[w2.state_name],
                                  !.state_dict = [k \in DOMAIN @ \ {w2.state_name} |-> @[k]]]
             IN  startup(w3, w3.state, t, p)

\* mutant: the registry is consulted before anything is changed
flip_state_lookup_first(w, t) ==
    LET out == w.state
        w1 == [w EXCEPT !.state_name = w.next[out]]
        p  == w1.persist[out]
        w2 == cleanup(w1, out)
    IN  IF w.next[out] \notin DOMAIN w.state_dict
        THEN [w EXCEPT !.raised = TRUE]
        ELSE LET w3 == [w2 EXCEPT !.state = w.state_dict[w2.state_name]]
             IN  startup(w3, w3.state, t, p)

\* Control.flip_state; the lookup self.state_dict[self.state_name] raises
\* KeyError when the name is no key
flip_state(w, t) ==
    LET out == w.state
        w1 == [w EXCEPT !.state_name = w.next[out]]
        p  == w1.persist[out]
        w2 == cleanup(w1, out)
    IN  IF w2.state_name \notin DOMAIN w.state_dict
        THEN [w2 EXCEPT !.raised = TRUE]
        ELSE LET w3 == [w2 EXCEPT !.state = w.state_dict[w2.state_name]]
             IN  startup(w3, w3.state, t, p)

\* mutant: update is called on the screen that was active before the transition
Control_update_old_screen(w, k, t, ch) ==
    LET w1 == IF ShouldFlip(w) THEN flip_state(w, t) ELSE w
    IN  IF w1.raised THEN w1 ELSE update(w1, w.state, k, t, ch)

\* Control.update, after current_time has been read
Control_update(w, k, t, ch) ==
    LET w1 == IF ShouldFlip(w) THEN flip_state(w, t) ELSE w
    IN  IF w1.raised THEN w1 ELSE update(w1, w1.state, k, t, ch)

(* ---------------- initial state ---------------- *)
\* Control() and the screen objects have been constructed; Menu.__init__
\* has run startup(0.0, persist) on its own bundle.
MenuAfterInit ==
    [game_info |-> DictMenu, player_index |-> 0, cursor_state |-> PLAYER1,
     cursor_y |-> CURSOR_Y1, timer_start |-> 0, current_time |-> 0]

\* what the Menu shows of itself: done, next, the selection and its bundle
MenuObs(w) ==
    [done |-> w.done[MenuObj], next |-> w.next[MenuObj],
     cursor_state |-> w.menu.cursor_state, cursor_y |-> w.menu.cursor_y,
     player_index |-> w.menu.player_index,
     bundle |-> w.heap[w.persist[MenuObj]]]

InitObjects ==
    /\ ctl_done = FALSE
    /\ keys = NoKeys
    /\ state_dict = EmptyDict
    /\ state_name = None
    /\ state = NoObj
    /\ current_time = 0
    /\ done = [o \in Objs |-> FALSE]
    /\ next = [o \in Objs |-> IF o = MenuObj THEN LOAD_SCREEN ELSE None]
    /\ persist = [o \in Objs |-> IF o = MenuObj THEN DictMenu ELSE DictScr]
    /\ menu = MenuAfterInit
    /\ heap = [r \in Refs |-> IF r = DictMenu THEN InitialPersist ELSE EmptyDict]
    /\ ticks = 0
    /\ pressed = NoKeys
    /\ events = <<>>
    /\ calls = <<>>
    /\ lastCall = [o \in Objs |-> IF o = MenuObj THEN "startup" ELSE "none"]
    /\ ctlStarted = [o \in Objs |-> FALSE]
    /\ frame = <<>>

NoReplay == [b0 |-> EmptyDict, T |-> 0, script |-> <<>>, obs |-> <<>>, i |-> 0]

Init ==
    /\ pc = "constructed"
    /\ InitObjects
    /\ replay = NoReplay

(* ---------------- actions ---------------- *)
ScreenOf(id) == IF id = MAIN_MENU THEN MenuObj ELSE ScrObj

\* Control.setup_states(state_dict, start_state)
SetupStates(d, s) ==
    /\ pc = "constructed"
    /\ state_dict' = d
    /\ state_name' = s
    /\ IF s \in DOMAIN d
       THEN state' = d[s] /\ pc' = "main"
       ELSE state' = state /\ pc' = "raised"
    /\ UNCHANGED <<ctl_done, keys, current_time, done, next, persist, menu, heap,
                   ticks, pressed, events, calls, lastCall, ctlStarted, frame>>
    /\ UNCHANGED replay

\* Control.main: while not self.done
MainTest ==
    /\ pc = "main"
    /\ pc' = IF ctl_done THEN "exited" ELSE "event_loop"
    /\ frame' = IF ctl_done THEN frame ELSE <<>>
    /\ UNCHANGED <<ctl_done, keys, state_dict, state_name, state, current_time,
                   done, next, persist, menu, heap, ticks, pressed, events,
                   calls, lastCall, ctlStarted>>
    /\ UNCHANGED replay

\* mutant: only the first pending event is looked at
HasType_first_only(q, ty) == Len(q) > 0 /\ q[1] = ty

HasType(q, ty) == \E i \in 1..Len(q) : q[i] = ty

\* mutant: a QUIT event ends the program from inside event_loop
EventLoop_quits_at_once ==
    /\ pc = "event_loop"
    /\ ctl_done' = (ctl_done \/ HasType(events, QUIT))
    /\ keys' = IF HasType(events, KEYDOWN) \/ HasType(events, KEYUP)
               THEN pressed ELSE keys
    /\ events' = <<>>
    /\ frame' = Append(frame, "event_loop")
    /\ pc' = IF HasType(events, QUIT) THEN "exited" ELSE "update"
    /\ UNCHANGED <<state_dict, state_name, state, current_time, done, next,
                   persist, menu, heap, ticks, pressed, calls, lastCall, ctlStarted>>
    /\ UNCHANGED replay

\* Control.event_loop
EventLoop ==
    /\ pc = "event_loop"
    /\ ctl_done' = (ctl_done \/ HasType(events, QUIT))
    /\ keys' = IF HasType(events, KEYDOWN) \/ HasType(events, KEYUP)
               THEN pressed ELSE keys
    /\ events' = <<>>
    /\ frame' = Append(frame, "event_loop")
    /\ pc' = "update"
    /\ UNCHANGED <<state_dict, state_name, state, current_time, done, next,
                   persist, menu, heap, ticks, pressed, calls, lastCall, ctlStarted>>
    /\ UNCHANGED replay

\* Control.update
Update(ch) ==
    /\ pc = "update"
    /\ current_time' = ticks
    /\ LET w == Control_update(World, keys, ticks, ch) IN
         /\ state_dict' = w.state_dict
         /\ state_name' = w.state_name
         /\ state' = w.state
         /\ done' = w.done
         /\ next' = w.next
         /\ persist' = w.persist
         /\ menu' = w.menu
         /\ heap' = w.heap
         /\ calls' = w.calls
         /\ lastCall' = w.lastCall
         /\ ctlStarted' = w.ctlStarted
         /\ pc' = IF w.raised THEN "raised" ELSE "display"
    /\ frame' = Append(frame, "update")
    /\ UNCHANGED <<ctl_done, keys, ticks, pressed, events>>
    /\ UNCHANGED replay

\* pg.display.update()
DisplayUpdate ==
    /\ pc = "display"
    /\ pc' = "tick"
    /\ frame' = Append(frame, "display")
    /\ UNCHANGED <<ctl_done, keys, state_dict, state_name, state, current_time,
                   done, next, persist, menu, heap, ticks, pressed, events,
                   calls, lastCall, ctlStarted>>
    /\ UNCHANGED replay

\* self.clock.tick(self.fps): the throttle; dt ms pass
ClockTick(dt) ==
    /\ pc = "tick"
    /\ ticks + dt <= MaxTicks
    /\ ticks' = ticks + dt
    /\ pc' = "main"
    /\ frame' = Append(frame, "tick")
    /\ UNCHANGED <<ctl_done, keys, state_dict, state_name, state, current_time,
                   done, next, persist, menu, heap, pressed, events,
                   calls, lastCall, ctlStarted>>
    /\ UNCHANGED replay

\* the environment: a key goes down or up, pygame queues the event
KeyEvent(k) ==
    /\ pc = "event_loop"
    /\ Len(events) < MaxQueue
    /\ pressed' = [pressed EXCEPT ![k] = ~@]
    /\ events' = Append(events, IF pressed[k] THEN KEYUP ELSE KEYDOWN)
    /\ UNCHANGED <<pc, ctl_done, keys, state_dict, state_name, state, current_time,
                   done, next, persist, menu, heap, ticks, calls, lastCall,
                   ctlStarted, frame>>
    /\ UNCHANGED replay

\* the environment: the window is closed, or some other event arrives
PostEvent(ty) ==
    /\ pc = "event_loop"
    /\ Len(events) < MaxQueue
    /\ events' = Append(events, ty)
    /\ UNCHANGED <<pc, ctl_done, keys, state_dict, state_name, state, current_time,
                   done, next, persist, menu, heap, ticks, pressed, calls, lastCall,
                   ctlStarted, frame>>
    /\ UNCHANGED replay

Registries == {[k \in K |-> ScreenOf(k)] : K \in SUBSET Ids}

Next ==
    \/ \E d \in Registries, s \in Ids : SetupStates(d, s)
    \/ MainTest
    \/ EventLoop
    \/ \E ch \in ScreenChoices : Update(ch)
    \/ DisplayUpdate
    \/ \E dt \in Dts : ClockTick(dt)
    \/ \E k \in MenuKeys : KeyEvent(k)
    \/ \E ty \in {QUIT, OTHER_EVENT} : PostEvent(ty)

Spec == Init /\ [][Next]_vars

\* The unattended run: Control.main with an environment that posts no
\* event, so event_loop finds the queue empty in every iteration.
NextUnattended ==
    \/ \E d \in Registries, s \in Ids : SetupStates(d, s)
    \/ MainTest
    \/ EventLoop
    \/ \E ch \in ScreenChoices : Update(ch)
    \/ DisplayUpdate
    \/ \E dt \in Dts : ClockTick(dt)

\* Control.main keeps running: a step of the loop that can be taken is taken.
LoopFairness ==
    /\ WF_vars(MainTest)
    /\ WF_vars(EventLoop)
    /\ WF_vars(\E ch \in ScreenChoices : Update(ch))
    /\ WF_vars(DisplayUpdate)
    /\ WF_vars(\E dt \in Dts : ClockTick(dt))

LiveSpec == Init /\ [][NextUnattended]_vars /\ LoopFairness

(* ---------------- the Menu driven activation by activation ---------------- *)
\* The screen contract exercised on the Menu instance alone: an activation
\* is recorded (the bundle contents startup was given, the keys and the
\* activation-relative time of every update, what the Menu showed after
\* each call); once the Menu is done it is cleaned up and started again,
\* either on other bundle contents, recorded afresh, or on the recorded
\* contents, and then fed the recorded inputs again.
CarriedBundles ==
    {InitialPersist,
     [InitialPersist EXCEPT ![PLAYER_NAME] = PLAYER_LUIGI, ![COIN_TOTAL] = 1,
                            ![SCORE] = 100, ![LIVES] = 2, ![TOP_SCORE] = 100,
                            ![LEVEL_NUM] = 2, ![CURRENT_TIME] = 500]}

ControlIdle ==
    UNCHANGED <<ctl_done, keys, state_dict, state_name, state, current_time,
                pressed, events, calls, lastCall, ctlStarted, frame>>

InitReplay ==
    /\ pc = "menu_rec"
    /\ InitObjects
    /\ replay = [b0 |-> InitialPersist, T |-> 0, script |-> <<>>,
                 obs |-> <<MenuObs(World)>>, i |-> 0]

\* cleanup(), then startup(t, r) with dict r holding contents b
Reactivate(w, t, r, b) ==
    LET w1 == cleanup(w, MenuObj)
        w2 == [w1 EXCEPT !.heap[r] = b]
    IN  Menu_startup(w2, t, r)

\* Menu.update in the recorded activation
RecUpdate(k, dt) ==
    /\ pc = "menu_rec"
    /\ ~done[MenuObj]
    /\ dt = 0 => replay.script = <<>>
    /\ ticks + dt <= MaxTicks
    /\ LET w == Menu_update(World, k, ticks + dt) IN
         /\ done' = w.done /\ next' = w.next /\ persist' = w.persist
         /\ menu' = w.menu /\ heap' = w.heap
         /\ replay' = [replay EXCEPT
                          !.script = Append(@, <<k, ticks + dt - replay.T>>),
                          !.obs = Append(@, MenuObs(w))]
    /\ ticks' = ticks + dt
    /\ pc' = pc
    /\ ControlIdle

\* the Menu is left and entered again on other bundle contents
RecNext(dt, r, b) ==
    /\ pc = "menu_rec"
    /\ done[MenuObj]
    /\ ticks + dt <= MaxTicks
    /\ LET w == Reactivate(World, ticks + dt, r, b) IN
         /\ done' = w.done /\ next' = w.next /\ persist' = w.persist
         /\ menu' = w.menu /\ heap' = w.heap
         /\ replay' = [b0 |-> b, T |-> ticks + dt, script |-> <<>>,
                       obs |-> <<MenuObs(w)>>, i |-> 0]
    /\ ticks' = ticks + dt
    /\ pc' = pc
    /\ ControlIdle

\* the Menu is left and entered again on the recorded bundle contents
RecReplay(dt, r) ==
    /\ pc = "menu_rec"
    /\ done[MenuObj]
    /\ LET w == Reactivate(World, ticks + dt, r, replay.b0) IN
         /\ done' = w.done /\ next' = w.next /\ persist' = w.persist
         /\ menu' = w.menu /\ heap' = w.heap
    /\ replay' = [replay EXCEPT !.T = ticks + dt, !.i = 0]
    /\ ticks' = ticks + dt
    /\ pc' = "menu_replay"
    /\ ControlIdle

\* Menu.update in the second activation, on the recorded keys and relative time
ReplayUpdate ==
    /\ pc = "menu_replay"
    /\ replay.i < Len(replay.script)
    /\ LET in == replay.script[replay.i + 1]
           w  == Menu_update(World, in[1], replay.T + in[2])
       IN  /\ done' = w.done /\ next' = w.next /\ persist' = w.persist
           /\ menu' = w.menu /\ heap' = w.heap
           /\ ticks' = replay.T + in[2]
    /\ replay' = [replay EXCEPT !.i = @ + 1]
    /\ pc' = pc
    /\ ControlIdle

KeyStates == [MenuKeys -> BOOLEAN]

NextReplay ==
    \/ \E k \in KeyStates, dt \in Dts \cup {0} : RecUpdate(k, dt)
    \/ \E dt \in Dts, r \in Refs, b \in CarriedBundles : RecNext(dt, r, b)
    \/ \E dt \in Dts, r \in Refs : RecReplay(dt, r)
    \/ ReplayUpdate

ReplaySpec == InitReplay /\ [][NextReplay]_vars

(* ======================= the claims ======================= *)
\* a step that is one whole Control.update
UpdateStep == pc = "update" /\ pc' # "update"
\* the controller is running frames: setup_states returned, no lookup failed
Running == pc \in {"main", "event_loop", "update", "display", "tick", "exited"}
OpsOf(cs) == [i \in 1..Len(cs) |-> cs[i].op]
IsLifecycle(c) == c.op \in {"startup", "cleanup"}

\* C1: when the active screen is done and its next X is registered, one
\* Control.update makes X the active identifier and state_dict[X] the active
\* screen, calls cleanup on the outgoing screen and then startup on X with the
\* very dict cleanup returned, holding what the outgoing screen last wrote.
C1_Transition ==
    [][(UpdateStep /\ done[state] /\ next[state] \in DOMAIN state_dict) =>
         /\ state_name' = next[state]
         /\ state' = state_dict[next[state]]
         /\ Len(calls') = 3
         /\ calls'[1].op = "cleanup" /\ calls'[1].obj = state
         /\ calls'[2].op = "startup" /\ calls'[2].obj = state'
         /\ calls'[2].arg = calls'[1].ret
         /\ calls'[2].arg = persist[state]
         /\ (state = MenuObj => calls'[2].arg = menu.game_info)
         /\ calls'[2].contents = heap[persist[state]]
         /\ calls'[2].time = current_time']_vars

\* the Menu has handed a bundle naming Luigi to the other screen
C1_Witness ==
    /\ pc = "display" /\ Len(calls) = 3
    /\ calls[1].obj = MenuObj /\ calls[2].obj = ScrObj
    /\ calls[2].arg = DictMenu
    /\ calls[2].contents[PLAYER_NAME] = PLAYER_LUIGI

\* C2: in any step taken while the active screen is not done, state_name and
\* state stay what they are and no cleanup or startup is called.
C2_NoDoneNoTransition ==
    [][(state \in Objs /\ ~done[state]) =>
         /\ state_name' = state_name
         /\ state' = state
         /\ lastCall' = lastCall
         /\ (UpdateStep => OpsOf(calls') = <<"update">>)]_vars

\* the Menu has been updated in a second frame without a transition
C2_Witness ==
    /\ pc = "display" /\ state = MenuObj /\ ticks > 0
    /\ OpsOf(calls) = <<"update">> /\ lastCall[ScrObj] = "none"

\* startup and cleanup calls on o strictly alternate, startup first
Alternates(prev, ops) ==
    LET full == <<prev>> \o ops IN
    \A i \in 1..(Len(full) - 1) :
        /\ full[i] # full[i + 1]
        /\ (full[i] = "none" => full[i + 1] = "startup")

LifecycleOn(cs, o) ==
    OpsOf(SelectSeq(cs, LAMBDA c : IsLifecycle(c) /\ c.obj = o))

\* C3: on every screen startup and cleanup strictly alternate, the first call
\* being a startup (the Menu's constructor call counted), so that every
\* activation has exactly one startup and one cleanup follows it.
C3_Alternation ==
    [][UpdateStep => \A o \in Objs : Alternates(lastCall[o], LifecycleOn(calls', o))]_vars

\* C4: Control.update never calls update on a screen whose done is set: a
\* frame that starts with the active screen done transitions first, and the
\* screen updated in that frame has done = false when it is called.
C4_NoUpdateWhenDone ==
    [][UpdateStep =>
         /\ \A i \in 1..Len(calls') :
               calls'[i].op = "update" => ~calls'[i].doneAtCall /\ i = Len(calls')
         /\ (done[state] => calls'[1].op = "cleanup" /\ calls'[1].obj = state)]_vars

\* a frame has transitioned back into the Menu and then updated it
C4_Witness ==
    /\ pc = "display" /\ OpsOf(calls) = <<"cleanup", "startup", "update">>
    /\ calls[3].obj = MenuObj /\ calls[1].obj = ScrObj

\* C5: every update call is made on a screen on which Control has called
\* startup for the current activation.
C5_StartupBeforeUpdate ==
    \A i \in 1..Len(calls) : calls[i].op = "update" => calls[i].ctlStarted

\* C6: the registry is non-empty, the active identifier is one of its keys
\* and the active screen is the one registered under it, in every state.
C6_RegistryAlways ==
    /\ DOMAIN state_dict # {}
    /\ state_name \in DOMAIN state_dict
    /\ state = state_dict[state_name]

\* C6 as amended: that holds while the controller is running frames; before
\* setup_states the registry is empty and nothing is active, and after a
\* failed lookup the active identifier is the unregistered one while the
\* active screen is what it was.
C6_RegistryWhileRunning ==
    /\ Running => C6_RegistryAlways /\ state \in Objs
    /\ pc = "constructed" => state_dict = EmptyDict /\ state_name = None /\ state = NoObj
    /\ pc = "raised" =>
          /\ state_name \notin DOMAIN state_dict
          /\ (state = NoObj \/ \E k \in DOMAIN state_dict : state_dict[k] = state)

\* the controller is running on the screen it has transitioned to
C6_Witness ==
    /\ pc = "tick" /\ state_name = LOAD_SCREEN /\ state = ScrObj
    /\ lastCall[MenuObj] = "cleanup"

\* C7: when the active screen is done and its next is no key of the registry,
\* Control.update raises: update is called on no screen in that frame, and
\* the controller takes no further step.
C7_UnregisteredRaises ==
    [][/\ pc # "raised"
       /\ (UpdateStep /\ done[state] /\ next[state] \notin DOMAIN state_dict) =>
             /\ pc' = "raised"
             /\ \A i \in 1..Len(calls') : calls'[i].op # "update"
             /\ state' = state]_vars

\* a screen finished with the default next = None and the lookup failed
C7_Witness ==
    /\ pc = "raised" /\ state = ScrObj /\ state_name = None
    /\ OpsOf(calls) = <<"cleanup">>

\* C8: no screen other than the active one references the active screen's
\* bundle.
C8_SingleHolder ==
    state \in Objs => \A o \in Objs : o # state => persist[o] # persist[state]

\* C8 as amended: cleanup leaves the outgoing screen's reference in place;
\* after a transition the outgoing and the incoming screen reference the same
\* dict, and a screen's reference changes only by its own startup.
C8_ReferenceKept ==
    [][/\ (UpdateStep /\ done[state] /\ next[state] \in DOMAIN state_dict) =>
             /\ persist'[state] = persist[state]
             /\ persist'[state'] = persist[state]
       /\ \A o \in Objs : persist'[o] # persist[o] =>
             /\ UpdateStep /\ state' = o
             /\ OpsOf(calls') = <<"cleanup", "startup", "update">>]_vars

\* the Menu has been left and still references the bundle the active screen holds
C8_Witness ==
    /\ pc = "display" /\ state = ScrObj /\ lastCall[MenuObj] = "cleanup"
    /\ persist[MenuObj] = DictMenu /\ persist[ScrObj] = DictMenu

\* C10: an update of the Menu with no key pressed leaves done false while
\* current_time - T < 1000 and sets done with next = LOAD_SCREEN once
\* current_time - T >= 1000, T being the time startup was given.
C10_MenuTimeout ==
    [][(UpdateStep /\ pc' = "display" /\ state' = MenuObj /\ keys = NoKeys) =>
         /\ (Len(calls') = 3 => menu'.timer_start = calls'[2].time)
         /\ (Len(calls') = 1 => menu'.timer_start = menu.timer_start)
         /\ (done'[MenuObj] <=> current_time' - menu'.timer_start >= TIMEOUT)
         /\ (done'[MenuObj] => next'[MenuObj] = LOAD_SCREEN)]_vars

\* a Menu activated by a transition at T > 0 has just timed out at T + 1000,
\* after an update at T + 500 that left it not done
C10_Witness ==
    /\ pc = "display" /\ state = MenuObj /\ keys = NoKeys
    /\ menu.timer_start > 0
    /\ current_time - menu.timer_start = TIMEOUT
    /\ done[MenuObj] /\ next[MenuObj] = LOAD_SCREEN

\* what the Menu shows, the bundle's current-time entry left out
WithoutTime(o) == [o EXCEPT !.bundle = [k \in DOMAIN @ \ {CURRENT_TIME} |-> @[k]]]
RecordedObs == replay.obs[replay.i + 1]

\* C9: cleanup resets done, and the Menu started again on the same bundle
\* contents and fed the same keys at the same activation-relative times shows
\* the same done, next, selection and bundle values after every call.
C9_ReplayIdentical ==
    pc = "menu_replay" =>
        /\ (replay.i = 0 => ~done[MenuObj])
        /\ MenuObs(World) = RecordedObs

\* C9 as amended: the same, except for the bundle's current-time entry, which
\* holds the absolute time of the frame.
C9_ReplayAgrees ==
    pc = "menu_replay" =>
        /\ (replay.i = 0 => ~done[MenuObj])
        /\ WithoutTime(MenuObs(World)) = WithoutTime(RecordedObs)
        /\ (CURRENT_TIME \in DOMAIN RecordedObs.bundle
              <=> CURRENT_TIME \in DOMAIN heap[persist[MenuObj]])

\* a second activation has replayed "down" and then "confirm" to the end
C9_Witness ==
    /\ pc = "menu_replay" /\ replay.i = Len(replay.script) /\ replay.i >= 2
    /\ replay.T > 0
    /\ done[MenuObj] /\ menu.player_index = 1
    /\ heap[persist[MenuObj]][PLAYER_NAME] = PLAYER_LUIGI

\* a Control.update that ended with Menu.update; Flipped: after a transition
MenuFrame == UpdateStep /\ pc' = "display" /\ state' = MenuObj
Flipped == Len(calls') = 3

\* C11: a Menu.update with "down" pressed on the default selection writes
\* Luigi into the bundle and selects player 2; a following update with
\* "confirm" pressed leaves Luigi there and sets done; an update with "up"
\* pressed on the alternate selection writes Mario back.
C11_MenuSelection ==
    [][MenuFrame =>
         LET b == heap'[persist'[MenuObj]] IN
         /\ ((Flipped \/ menu.cursor_state = PLAYER1) /\ keys[K_DOWN]) =>
               /\ b[PLAYER_NAME] = PLAYER_LUIGI
               /\ menu'.cursor_state = PLAYER2 /\ menu'.player_index = 1
         /\ (~Flipped /\ menu.cursor_state = PLAYER2 /\ keys[K_RETURN] /\ ~keys[K_UP]) =>
               /\ b[PLAYER_NAME] = PLAYER_LUIGI
               /\ done'[MenuObj]
         /\ (~Flipped /\ menu.cursor_state = PLAYER2 /\ keys[K_UP]) =>
               /\ b[PLAYER_NAME] = PLAYER_MARIO
               /\ menu'.cursor_state = PLAYER1 /\ menu'.player_index = 0
         /\ (keys[K_RETURN] => done'[MenuObj])]_vars

\* "down" in an earlier frame, then "confirm" alone before the timeout
C11_Witness ==
    /\ pc = "display" /\ state = MenuObj /\ OpsOf(calls) = <<"update">>
    /\ keys[K_RETURN] /\ ~keys[K_DOWN] /\ ~keys[K_UP]
    /\ current_time - menu.timer_start < TIMEOUT
    /\ done[MenuObj] /\ menu.cursor_state = PLAYER2
    /\ heap[persist[MenuObj]][PLAYER_NAME] = PLAYER_LUIGI

StatKeys == {COIN_TOTAL, SCORE, LIVES, TOP_SCORE, LEVEL_NUM}
Stats(d) == [k \in StatKeys \cap DOMAIN d |-> d[k]]

\* C12: a frame in which the Menu is started and/or updated without
\* "confirm" pressed leaves coin total, score, lives, top score and level
\* number of every bundle as they were.
C12_StatsKept ==
    [][(MenuFrame /\ ~keys[K_RETURN]) =>
         \A r \in Refs : Stats(heap'[r]) = Stats(heap[r])]_vars

\* the Menu has been entered on a bundle carrying game progress, no confirm
C12_Witness ==
    /\ pc = "display" /\ state = MenuObj
    /\ OpsOf(calls) = <<"cleanup", "startup", "update">>
    /\ ~keys[K_RETURN]
    /\ SCORE \in DOMAIN heap[persist[MenuObj]]
    /\ heap[persist[MenuObj]][SCORE] = 100
    /\ heap[persist[MenuObj]][LIVES] = 2

FullFrame == <<"event_loop", "update", "display", "tick">>
Pending(ty) == \E i \in 1..Len(events) : events[i] = ty

\* what C13 and its amended form share: Control.done changes only in
\* event_loop, to true and on a QUIT event; event_loop runs first in an
\* iteration; once the flag is set display is followed by tick, tick by the
\* while test, and the while test by the exit, after a whole iteration.
QuitProtocol ==
    /\ (ctl_done' # ctl_done =>
            pc = "event_loop" /\ Pending(QUIT) /\ ctl_done' /\ frame = <<>>)
    /\ (pc = "event_loop" /\ pc' # pc /\ Pending(QUIT) => ctl_done')
    /\ (ctl_done /\ pc = "display" => pc' = "tick")
    /\ (ctl_done /\ pc = "tick" => pc' = "main")
    /\ (ctl_done /\ pc = "main" => pc' = "exited")
    /\ (pc' = "exited" => pc = "main" /\ ctl_done /\ frame' = FullFrame)
    /\ pc # "exited"

\* C13: the quit signal is read in event_loop only; the flag it sets is never
\* cleared; the iteration that read it goes on through update, display and
\* tick, and the loop then exits without another iteration.
C13_QuitCompletesFrame ==
    [][QuitProtocol /\ (ctl_done /\ pc = "update" => pc' = "display")]_vars

\* C13 as amended: the same, except that the update of that iteration may
\* raise the lookup error of an unregistered next, which ends the loop at once.
C13_QuitCompletesFrameOrRaises ==
    [][/\ QuitProtocol
       /\ (ctl_done /\ pc = "update" => pc' \in {"display", "raised"})
       /\ (ctl_done /\ pc = "update" /\ pc' = "raised" =>
              done[state] /\ next[state] \notin DOMAIN state_dict)
       /\ (ctl_done /\ pc = "update" /\ ~(done[state] /\ next[state] \notin DOMAIN state_dict)
              => pc' = "display")]_vars

\* the loop has exited after a quit read in a frame that also transitioned
C13_Witness ==
    /\ pc = "exited" /\ ctl_done /\ frame = FullFrame
    /\ OpsOf(calls) = <<"cleanup", "startup", "update">>
    /\ ticks > 0

\* C14: one call of event_loop empties the event queue; the snapshot becomes
\* the current pressed-key state if a KEYDOWN or KEYUP was pending, the
\* terminal flag is set if a QUIT was pending, and with nothing pending both
\* stay as they are (as they do with no event of these types pending).
C14_InputSampling ==
    [][(pc = "event_loop" /\ pc' # pc) =>
         /\ events' = <<>>
         /\ pc' = "update"
         /\ (Pending(KEYDOWN) \/ Pending(KEYUP) => keys' = pressed)
         /\ (Pending(QUIT) => ctl_done')
         /\ (~Pending(KEYDOWN) /\ ~Pending(KEYUP) => keys' = keys)
         /\ (~Pending(QUIT) => ctl_done' = ctl_done)
         /\ (events = <<>> => keys' = keys /\ ctl_done' = ctl_done)
         /\ pressed' = pressed]_vars

\* event_loop has drained a key press and a quit that were pending together
C14_Witness ==
    /\ pc = "update" /\ events = <<>> /\ frame = <<"event_loop">>
    /\ ctl_done /\ keys[K_RETURN] /\ keys = pressed
    /\ ticks > 0

Count(cs, op) == Len(SelectSeq(cs, LAMBDA c : c.op = op))

\* the steps of an iteration come in the order event_loop, update, display,
\* tick, each once, and a new iteration starts only after a whole one
FrameOrder ==
    /\ (pc = "main" /\ pc' = "event_loop" => frame \in {<<>>, FullFrame} /\ frame' = <<>>)
    /\ (pc = "event_loop" /\ pc' # pc => pc' = "update" /\ frame' = <<"event_loop">>)
    /\ (pc = "update" => frame' = <<"event_loop", "update">>)
    /\ (pc = "display" => pc' = "tick" /\ frame' = <<"event_loop", "update", "display">>)
    /\ (pc = "tick" => pc' = "main" /\ frame' = FullFrame)

\* within one Control.update: at most one transition, then exactly one
\* update call, made on the screen that is active afterwards
OneUpdate ==
    /\ pc' = "display"
    /\ Count(calls', "cleanup") <= 1 /\ Count(calls', "startup") <= 1
    /\ Count(calls', "cleanup") = Count(calls', "startup")
    /\ Count(calls', "update") = 1
    /\ calls'[Len(calls')].op = "update"
    /\ calls'[Len(calls')].obj = state'
    /\ calls'[Len(calls')].time = current_time' /\ current_time' = ticks
    /\ calls'[Len(calls')].keys = keys

\* C15: every iteration performs event_loop, update, display, tick in this
\* order, once each, and every Control.update makes at most one transition
\* and exactly one update call, on the screen active after the transition.
C15_FrameOrder ==
    [][FrameOrder /\ (UpdateStep => OneUpdate)]_vars

\* C15 as amended: the same for every iteration whose Control.update returns;
\* one that raises the lookup error has called cleanup and no update, and
\* display and tick do not follow.
C15_FrameOrderUnlessRaised ==
    [][/\ FrameOrder
       /\ (UpdateStep /\ pc' # "raised" => OneUpdate)
       /\ (UpdateStep /\ pc' = "raised" =>
              /\ done[state] /\ next[state] \notin DOMAIN state_dict
              /\ OpsOf(calls') = <<"cleanup">>)
       /\ pc # "raised"]_vars

\* a whole iteration that transitioned into the Menu and updated it
C15_Witness ==
    /\ pc = "main" /\ frame = FullFrame
    /\ OpsOf(calls) = <<"cleanup", "startup", "update">>
    /\ calls[3].obj = MenuObj /\ state = MenuObj

\* C16: single writer. A dictionary changes only inside Control.update, and
\* then only the bundle of the screen that is active after it; cleanup and
\* startup leave the contents as they were before the frame, the only update
\* call is on the active screen, never on one whose last lifecycle call is
\* cleanup, and an idle Menu entered in this frame adds its time stamp only.
C16_SingleWriter ==
    [][/\ (heap' # heap => UpdateStep /\ pc' = "display")
       /\ \A r \in Refs : heap'[r] # heap[r] => r = persist'[state']
       /\ UpdateStep =>
            \A i \in 1..Len(calls') :
               /\ calls'[i].op = "cleanup" =>
                     calls'[i].contents = heap[calls'[i].ret]
               /\ calls'[i].op = "startup" =>
                     calls'[i].contents = heap[calls'[i].arg]
               /\ calls'[i].op = "update" =>
                     /\ calls'[i].obj = state'
                     /\ calls'[i].lastCall # "cleanup"
       /\ UpdateStep /\ Flipped /\ state' = MenuObj /\ keys = NoKeys =>
            heap'[persist'[MenuObj]] =
                Put(heap[persist'[MenuObj]], CURRENT_TIME, ticks)]_vars

\* the Menu has been cleaned up and still refers to the bundle; the other
\* screen is active on the same bundle and has written game progress into it
C16_Witness ==
    /\ state = ScrObj /\ lastCall[MenuObj] = "cleanup"
    /\ persist[ScrObj] = DictMenu /\ persist[MenuObj] = DictMenu
    /\ SCORE \in DOMAIN heap[DictMenu] /\ heap[DictMenu][SCORE] = 100
    /\ heap[DictMenu][CURRENT_TIME] > 0

\* the loop is running on the Menu and has not been told to quit
MenuRunning ==
    /\ pc \in {"main", "event_loop", "update", "display", "tick"}
    /\ state = MenuObj /\ ~ctl_done

\* the clock can still advance within the bound
CanTick == \E dt \in Dts : ticks + dt <= MaxTicks

\* the next Control.update of the running loop is within the bound
NextFrameRuns == pc \in {"display", "tick"} => CanTick

\* C17: with the Menu active, the loop running and no input, the Menu sets
\* done once the time can reach timer_start + 1000, and once it is done with
\* its successor registered the successor becomes the active screen.
C17_MenuAdvances ==
    /\ (MenuRunning /\ menu.timer_start + TIMEOUT <= MaxTicks)
          ~> done[MenuObj]
    /\ (MenuRunning /\ done[MenuObj] /\ NextFrameRuns
          /\ next[MenuObj] \in DOMAIN state_dict)
          ~> (state_name = LOAD_SCREEN /\ state = ScrObj)

\* an unattended Menu has timed out and its successor is the active screen
C17_Witness ==
    /\ state_name = LOAD_SCREEN /\ state = ScrObj
    /\ lastCall[MenuObj] = "cleanup" /\ lastCall[ScrObj] = "startup"
    /\ keys = NoKeys /\ pressed = NoKeys /\ menu.cursor_state = PLAYER1
    /\ menu.current_time - menu.timer_start >= TIMEOUT
    /\ ticks > menu.current_time

\* C18: once setup_states has run, the registry is never changed: no step of
\* event_loop, update, flip_state or main changes its keys or its screens,
\* whether a transition succeeds or fails.
C18_RegistryFrozen ==
    [][pc # "constructed" => state_dict' = state_dict]_vars

\* both screens are registered; a transition has succeeded and a later one
\* has failed
C18_Witness ==
    /\ pc = "raised" /\ DOMAIN state_dict = {MAIN_MENU, LOAD_SCREEN}
    /\ state_dict[MAIN_MENU] = MenuObj /\ state_dict[LOAD_SCREEN] = ScrObj
    /\ lastCall[MenuObj] = "cleanup" /\ lastCall[ScrObj] = "cleanup"

FailedFlip == UpdateStep /\ pc' = "raised"

\* C19: a transition attempt that fails on an unregistered next changes
\* nothing: identifier, active screen and done flag are as before and
\* cleanup has not been called.
C19_NoPartialEffect ==
    [][FailedFlip =>
          /\ state_name' = state_name /\ state' = state
          /\ done'[state] = done[state]
          /\ Count(calls', "cleanup") = 0]_vars

\* C19 as amended: the active screen, the registry and the dictionaries are
\* as before, but the identifier is the unregistered next, cleanup has been
\* called on the outgoing screen and has reset its done flag, and neither
\* startup nor update has been called.
C19_PartialEffect ==
    [][FailedFlip =>
          /\ state' = state /\ state_dict' = state_dict
          /\ heap' = heap /\ persist' = persist /\ next' = next
          /\ state_name' = next[state] /\ state_name' \notin DOMAIN state_dict
          /\ done[state] /\ ~done'[state]
          /\ OpsOf(calls') = <<"cleanup">> /\ calls'[1].obj = state
          /\ lastCall'[state] = "cleanup"]_vars

\* the Menu asked for the load screen, which is not registered
C19_Witness ==
    /\ pc = "raised" /\ state = MenuObj /\ state_name = LOAD_SCREEN
    /\ DOMAIN state_dict = {MAIN_MENU}
    /\ ~done[MenuObj] /\ lastCall[MenuObj] = "cleanup"

\* what the Menu's cursor shows
OnPlayer1 == menu.cursor_state = PLAYER1 /\ menu.player_index = 0
OnPlayer2 == menu.cursor_state = PLAYER2 /\ menu.player_index = 1

\* the Menu is the active screen of the running loop and its bundle names a
\* player
MenuShown ==
    /\ pc \in {"main", "event_loop", "update", "display", "tick"}
    /\ state = MenuObj
    /\ PLAYER_NAME \in DOMAIN heap[menu.game_info]

\* C20: whenever the Menu is active, the cursor is on player 1 with index 0
\* exactly when the bundle's player is Mario, and on player 2 with index 1
\* exactly when it is Luigi.
C20_CursorAgrees ==
    MenuShown =>
        /\ OnPlayer1 <=> heap[menu.game_info][PLAYER_NAME] = PLAYER_MARIO
        /\ OnPlayer2 <=> heap[menu.game_info][PLAYER_NAME] = PLAYER_LUIGI
====
